---- MODULE Spec2Model ----
(***************************************************************************)
(* map-in-place: Vec<A>::map_in_place(f) -> Vec<B>, reusing the backing    *)
(* allocation (src/src/lib.rs).  The model follows one call from entry to  *)
(* its return or its panic, and then the drop of the returned vector.      *)
(*                                                                         *)
(* The allocation is modelled byte by byte: every byte carries the type    *)
(* and index of the element it belongs to, so that overlapping accesses,   *)
(* reads of moved-out slots and destructors run on slots that hold no      *)
(* value of that type are all visible.  An access that Rust leaves         *)
(* undefined (dropping or reading a slot that holds no valid value)        *)
(* yields a nondeterministically chosen value and is logged as invalid.    *)
(***************************************************************************)
EXTENDS Integers, Sequences, FiniteSets, TLC

\* ---------------------------------------------------------------- bounds
MaxLen == 3        \* longest input vector
MaxCap == 3        \* largest capacity of a vector of non-zero-sized elements
MaxSize == 3       \* largest element size (stride) in bytes
MaxVal == 1        \* element payloads are 0..MaxVal
UsizeBits == 6     \* width of usize in the model

UsizeMax == (2 ^ UsizeBits) - 1
Aligns == {1, 2}
Vals == 0..MaxVal
None == 0 - 1      \* "no value" / "no index"

\* values a type of the given size can hold: a zero-sized type has one value
ValsOf(size) == IF size = 0 THEN {0} ELSE Vals

\* the only value of a zero-sized type
Unit == CHOOSE u \in ValsOf(0) : TRUE

\* a heap address: aligned for every alignment, never a dangling address
HeapBase == CHOOSE p \in 1..UsizeMax :
              /\ \A al \in Aligns : p % al = 0 /\ p > al

VARIABLES
  a_size, b_size,   \* mem::size_of::<A>(), mem::size_of::<B>()
  a_align, b_align, \* mem::align_of::<A>(), mem::align_of::<B>()
  len, cap,         \* self.len(), self.capacity() at entry
  src,              \* the input elements, [0..len-1 -> Vals]
  f,                \* the conversion function, as its graph
  pc,               \* position in the call
  err,              \* "none", "precondition" or "f_panic"
  i,                \* loop index
  idx,              \* Dropper.idx
  owned,            \* Dropper.owned / self: [len, cap] of the Vec<A> handle
  v,                \* the value moved out by ptr::read (None when absent)
  y,                \* the value f returned, before it is written
  mem,              \* the allocation, byte by byte
  alloc,            \* "none" (no heap block), "live", "freed", "double_freed"
  live_a,           \* indices of source values not yet moved out or destroyed
  live_b,           \* indices of destination values held by a buffer
  cap_out,          \* cap computed for the result
  out,              \* returned Vec<B>: [ptr, len, cap], or NoVec
  panic_at,         \* index f aborted on, or None
  log,              \* history of reads, calls, writes, drops and frees
  base,             \* self.as_ptr() at entry
  trip              \* the first call of a round trip: [round, src, ptr, len]

vars == <<a_size, b_size, a_align, b_align, len, cap, src, f, pc, err, i, idx,
          owned, v, y, mem, alloc, live_a, live_b, cap_out, out, panic_at, log,
          base, trip>>

inputs == <<a_size, b_size, a_align, b_align, len, cap, src, f, base, trip>>

NoVec == [ptr |-> 0, len |-> 0, cap |-> 0, some |-> FALSE]
VecOf(p, l, c) == [ptr |-> p, len |-> l, cap |-> c, some |-> TRUE]

Ev(op, ty, j, val, valid) ==
  [op |-> op, ty |-> ty, idx |-> j, val |-> val, valid |-> valid]

\* ------------------------------------------------------------ the buffer
SizeOf(ty) == IF ty = "A" THEN a_size ELSE b_size

\* bytes of the heap block behind a Vec of `c` elements of `size` bytes
AllocBytes(c, size) == IF size = 0 THEN 0 ELSE c * size

\* Vec::as_ptr(): dangling (the alignment) when there is no heap block
BasePtr(c, size, align) == IF AllocBytes(c, size) = 0 THEN align ELSE HeapBase

\* let ptr_a = self.as_ptr()
ptr_a == base

Uninit == [ty |-> "U", idx |-> None, val |-> 0]

InitMem(n, sz, ln, s) ==
  [b \in 0..(n - 1) |->
     IF sz > 0 /\ b < ln * sz
       THEN [ty |-> "A", idx |-> b \div sz, val |-> s[b \div sz]]
       ELSE Uninit]

\* byte offset of element j of type ty: ptr.offset(j)
Offset(ty, j) == j * SizeOf(ty)

SlotBytes(ty, j) == Offset(ty, j)..(Offset(ty, j) + SizeOf(ty) - 1)

\* every byte of slot j lies in the block and belongs to element j of type ty
BytesHold(m, ty, j) ==
  \A b \in SlotBytes(ty, j) :
     b \in DOMAIN m /\ m[b].ty = ty /\ m[b].idx = j

\* slot j holds a valid value of type ty that `live` says is still owned
SlotValid(m, live, ty, j) == j \in live /\ BytesHold(m, ty, j)

\* mutant of SlotVal: the access is made through the base pointer, without the
\* offset of slot j
SlotVal_first(m, live, ty, j, g) ==
  IF SlotValid(m, live, ty, 0)
    THEN (IF SizeOf(ty) = 0 THEN Unit ELSE m[Offset(ty, 0)].val)
    ELSE g

\* the value an access to slot j at type ty observes; g is what an invalid
\* access happens to see
SlotVal(m, live, ty, j, g) ==
  IF SlotValid(m, live, ty, j)
    THEN (IF SizeOf(ty) = 0 THEN Unit ELSE m[Offset(ty, j)].val)
    ELSE g

\* mutant of WriteSlot: the write lands one slot too far, as when the
\* destination is addressed with the counter that was already incremented
WriteSlot_next(m, ty, j, val) ==
  [b \in DOMAIN m |->
     IF b \in SlotBytes(ty, j + 1) THEN [ty |-> ty, idx |-> j + 1, val |-> val]
     ELSE m[b]]

\* ptr::write(ptr.offset(j), val) at type ty
WriteSlot(m, ty, j, val) ==
  [b \in DOMAIN m |->
     IF b \in SlotBytes(ty, j) THEN [ty |-> ty, idx |-> j, val |-> val]
     ELSE m[b]]

\* ptr::drop_in_place on slots lo..hi-1 at type ty, in increasing index order
DropRange(m, live, ty, lo, hi, g) ==
  IF hi <= lo THEN << >>
  ELSE [n \in 1..(hi - lo) |->
          Ev("drop", ty, lo + n - 1, SlotVal(m, live, ty, lo + n - 1, g),
             SlotValid(m, live, ty, lo + n - 1))]

\* releasing the heap block of a vector with c elements of `size` bytes
FreeLog(c, size) ==
  IF AllocBytes(c, size) = 0 THEN << >>
  ELSE << Ev("free", "-", None, AllocBytes(c, size), alloc = "live") >>

FreeAlloc(c, size) ==
  IF AllocBytes(c, size) = 0 THEN alloc
  ELSE IF alloc = "live" THEN "freed" ELSE "double_freed"

\* ------------------------------------------------------------------ Init
\* the conversion functions tried: every rotation of the payload and every
\* constant function (all functions when there are two payloads)
Fns(D, R) ==
  {[x \in D |-> (x + d) % Cardinality(R)] : d \in R}
    \cup {[x \in D |-> c] : c \in R}

Types == {t \in (0..MaxSize) \X Aligns : t[1] % t[2] = 0}

Init ==
  /\ \E ta \in Types, tb \in Types :
       /\ a_size = ta[1] /\ a_align = ta[2]
       /\ b_size = tb[1] /\ b_align = tb[2]
  /\ len \in 0..MaxLen
  /\ cap \in (IF a_size = 0 THEN {UsizeMax}
              ELSE {c \in 0..MaxCap : c >= len})
  /\ src \in [0..(len - 1) -> ValsOf(a_size)]
  /\ f \in Fns(ValsOf(a_size), ValsOf(b_size))
  /\ base = BasePtr(cap, a_size, a_align)
  /\ trip = [round |-> 1, src |-> src, ptr |-> base, len |-> len]
  /\ pc = "start"
  /\ err = "none"
  /\ i = 0
  /\ idx = 0
  /\ owned = VecOf(ptr_a, len, cap)
  /\ v = None
  /\ y = None
  /\ mem = InitMem(AllocBytes(cap, a_size), a_size, len, src)
  /\ alloc = IF AllocBytes(cap, a_size) = 0 THEN "none" ELSE "live"
  /\ live_a = 0..(len - 1)
  /\ live_b = {}
  /\ cap_out = 0
  /\ out = NoVec
  /\ panic_at = None
  /\ log = << >>

\* --------------------------------------------------------------- helpers
\* mutant of Cmp: the operands compared the wrong way round
Cmp_swapped(x, z) ==
  IF z < x THEN "Less" ELSE IF x = z THEN "Equal" ELSE "Greater"

\* a_size.cmp(&b_size)
Cmp(x, z) == IF x < z THEN "Less" ELSE IF x = z THEN "Equal" ELSE "Greater"

\* usize::checked_mul: None on overflow
CheckedMul(x, z) == IF x * z > UsizeMax THEN None ELSE x * z

\* mutant of Divisible: the assertion left out
Divisible_unchecked(tmp, size) == TRUE

\* assert_eq!(tmp % b_size, 0)
Divisible(tmp, size) == tmp % size = 0

\* mutant of NewCap: the byte count used as the capacity, division forgotten
NewCap_bytes(tmp, size) == tmp

\* tmp / b_size
NewCap(tmp, size) == tmp \div size

\* mutant of PtrCast: the cast pointer is advanced by one
PtrCast_advanced(p) == p + 1

\* ptr_a as *mut B
PtrCast(p) == p

ptr_b == PtrCast(ptr_a)

\* mutant of NextIndex: the loop steps by two
NextIndex_skip(j) == j + 2

\* mutant of WithCapacity0Ptr: the input's pointer reused for the results
WithCapacity0Ptr_reused == ptr_b

\* Vec::with_capacity(0).as_ptr(): no heap block, a dangling pointer
WithCapacity0Ptr == BasePtr(0, b_size, b_align)

\* the next index of `for i in 0..len`
NextIndex(j) == j + 1

\* f(v)
CallF(x) == f[x]

\* unwinding out of Vec::map_in_place before the guard exists drops `self`:
\* every element the handle still counts, in index order, then the block
DropSelfLog(g) ==
  DropRange(mem, live_a, "A", 0, owned.len, g) \o FreeLog(owned.cap, a_size)

Fail(kind, events) ==
  /\ pc' = "failed"
  /\ err' = kind
  /\ log' = log \o events
  /\ live_a' = live_a \ (0..(owned.len - 1))
  /\ alloc' = FreeAlloc(owned.cap, a_size)
  /\ owned' = NoVec

\* --------------------------------------------- Vec::map_in_place, dispatch
\* Ordering::Less => panic!(..)
DispatchLess ==
  /\ pc = "start"
  /\ Cmp(a_size, b_size) = "Less"
  /\ \E g \in ValsOf(a_size) : Fail("precondition", DropSelfLog(g))
  /\ UNCHANGED <<inputs, i, idx, v, y, mem, live_b, cap_out, out, panic_at>>

\* Ordering::Equal, a_size == 0: the loop over zero-sized elements
DispatchEqualZst ==
  /\ pc = "start"
  /\ Cmp(a_size, b_size) = "Equal"
  /\ a_size = 0
  /\ pc' = "zst_loop"
  /\ cap_out' = cap
  /\ UNCHANGED <<inputs, err, i, idx, owned, v, y, mem, alloc, live_a, live_b,
                 out, panic_at, log>>

\* Ordering::Equal, a_size != 0: map_in_place(self, f) is entered and the
\* Dropper is built with idx 0
DispatchEqual ==
  /\ pc = "start"
  /\ Cmp(a_size, b_size) = "Equal"
  /\ a_size # 0
  /\ pc' = "loop_read"
  /\ cap_out' = cap
  /\ idx' = 0
  /\ UNCHANGED <<inputs, err, i, owned, v, y, mem, alloc, live_a, live_b,
                 out, panic_at, log>>

\* Ordering::Greater, b_size == 0: results are pushed onto a fresh vector
DispatchGreaterZst ==
  /\ pc = "start"
  /\ Cmp(a_size, b_size) = "Greater"
  /\ b_size = 0
  /\ pc' = "push_loop"
  /\ UNCHANGED <<inputs, err, i, idx, owned, v, y, mem, alloc, live_a, live_b,
                 cap_out, out, panic_at, log>>

\* Ordering::Greater, b_size != 0: cap = capacity * a_size / b_size, then
\* map_in_place(self, f) is entered
DispatchGreater ==
  /\ pc = "start"
  /\ Cmp(a_size, b_size) = "Greater"
  /\ b_size # 0
  /\ CheckedMul(owned.cap, a_size) # None
  /\ Divisible(CheckedMul(owned.cap, a_size), b_size)
  /\ pc' = "loop_read"
  /\ cap_out' = NewCap(CheckedMul(owned.cap, a_size), b_size)
  /\ idx' = 0
  /\ UNCHANGED <<inputs, err, i, owned, v, y, mem, alloc, live_a, live_b,
                 out, panic_at, log>>

\* Ordering::Greater, b_size != 0: unwrap() of an overflowed product or the
\* assert_eq! on divisibility panics
DispatchGreaterFail ==
  /\ pc = "start"
  /\ Cmp(a_size, b_size) = "Greater"
  /\ b_size # 0
  /\ \/ CheckedMul(owned.cap, a_size) = None
     \/ ~Divisible(CheckedMul(owned.cap, a_size), b_size)
  /\ \E g \in ValsOf(a_size) : Fail("precondition", DropSelfLog(g))
  /\ UNCHANGED <<inputs, i, idx, v, y, mem, live_b, cap_out, out, panic_at>>

\* ------------------------------------------ fn map_in_place: guarded loop
\* let v = ptr::read(ptr_a); dropper.idx += 1;
LoopRead ==
  /\ pc = "loop_read"
  /\ i < len
  /\ \E g \in ValsOf(a_size) : v' = SlotVal(mem, live_a, "A", i, g)
  /\ log' = Append(log, Ev("read", "A", i, v', SlotValid(mem, live_a, "A", i)))
  /\ live_a' = live_a \ {i}
  /\ idx' = idx + 1
  /\ pc' = "loop_call"
  /\ UNCHANGED <<inputs, err, i, owned, y, mem, alloc, live_b, cap_out, out,
                 panic_at>>

\* f(v) returns
LoopCallOk ==
  /\ pc = "loop_call"
  /\ y' = CallF(v)
  /\ v' = None
  /\ log' = Append(log, Ev("call", "A", i, v, TRUE))
  /\ pc' = "loop_write"
  /\ UNCHANGED <<inputs, err, i, idx, owned, mem, alloc, live_a, live_b,
                 cap_out, out, panic_at>>

\* f(v) panics: v was moved into f, unwinding reaches the Dropper
LoopCallPanic ==
  /\ pc = "loop_call"
  /\ v' = None
  /\ log' = log \o << Ev("call", "A", i, v, TRUE), Ev("panic", "A", i, v, TRUE) >>
  /\ panic_at' = i
  /\ err' = "f_panic"
  /\ pc' = "guard_drop"
  /\ UNCHANGED <<inputs, i, idx, owned, y, mem, alloc, live_a, live_b,
                 cap_out, out>>

\* ptr::write(ptr_b, ..), and the loop steps to the next index
LoopWrite ==
  /\ pc = "loop_write"
  /\ mem' = WriteSlot(mem, "B", i, y)
  /\ log' = Append(log, Ev("write", "B", i, y, TRUE))
  /\ live_b' = live_b \cup {i}
  /\ y' = None
  /\ i' = NextIndex(i)
  /\ pc' = "loop_read"
  /\ UNCHANGED <<inputs, err, idx, owned, v, alloc, live_a, cap_out, out,
                 panic_at>>

\* the loop is over: map_in_place returns and the Dropper goes out of scope
LoopExit ==
  /\ pc = "loop_read"
  /\ i >= len
  /\ pc' = "guard_drop"
  /\ UNCHANGED <<inputs, err, i, idx, owned, v, y, mem, alloc, live_a, live_b,
                 cap_out, out, panic_at, log>>

\* ------------------------------------------------------- Dropper::drop
\* impl Drop for Dropper: set_len(0), then either the manual cleanup
\* (idx != len) or forgetting the vector (idx == len)
DropperDrop ==
  /\ pc = "guard_drop"
  /\ IF idx # owned.len
       THEN /\ \E gb \in ValsOf(b_size), ga \in ValsOf(a_size) :
                 log' = log \o DropRange(mem, live_b, "B", 0, idx, gb)
                            \o DropRange(mem, live_a, "A", idx, owned.len, ga)
            /\ live_b' = live_b \ (0..(idx - 1))
            /\ live_a' = live_a \ (idx..(owned.len - 1))
            /\ owned' = [owned EXCEPT !.len = 0]
       ELSE /\ log' = Append(log, Ev("forget", "-", None, owned.len, TRUE))
            /\ owned' = VecOf(a_align, 0, 0)
            /\ UNCHANGED <<live_a, live_b>>
  /\ pc' = "guard_glue"
  /\ UNCHANGED <<inputs, err, i, idx, v, y, mem, alloc, cap_out, out, panic_at>>

\* the drop glue of the field Dropper.owned, run after Dropper::drop: the
\* Vec<A> destroys the elements it still counts and releases its block
DropOwnedField ==
  /\ pc = "guard_glue"
  /\ \E g \in ValsOf(a_size) :
       log' = log \o DropRange(mem, live_a, "A", 0, owned.len, g)
                  \o FreeLog(owned.cap, a_size)
  /\ live_a' = live_a \ (0..(owned.len - 1))
  /\ alloc' = FreeAlloc(owned.cap, a_size)
  /\ owned' = NoVec
  /\ pc' = IF err = "f_panic" THEN "failed" ELSE "from_raw_parts"
  /\ UNCHANGED <<inputs, err, i, idx, v, y, mem, live_b, cap_out, out, panic_at>>

\* Vec::from_raw_parts(ptr_b, len, cap)
FromRawParts ==
  /\ pc = "from_raw_parts"
  /\ out' = VecOf(ptr_b, len, cap_out)
  /\ pc' = "returned"
  /\ UNCHANGED <<inputs, err, i, idx, owned, v, y, mem, alloc, live_a, live_b,
                 cap_out, panic_at, log>>

\* ------------------------------------------- both sizes zero: fast path
\* f(ptr::read(ptr_a)); the value f returns is a temporary, dropped at once
ZstCallOk ==
  /\ pc = "zst_loop"
  /\ i < len
  /\ \E g \in ValsOf(a_size) :
       log' = log \o << Ev("read", "A", i, SlotVal(mem, live_a, "A", i, g),
                           SlotValid(mem, live_a, "A", i)),
                        Ev("call", "A", i, SlotVal(mem, live_a, "A", i, g), TRUE),
                        Ev("drop", "B", i,
                           CallF(SlotVal(mem, live_a, "A", i, g)), TRUE) >>
  /\ live_a' = live_a \ {i}
  /\ i' = NextIndex(i)
  /\ UNCHANGED <<inputs, pc, err, idx, owned, v, y, mem, alloc, live_b, cap_out,
                 out, panic_at>>

\* f panics in the fast path: unwinding drops `self`, which still counts
\* all len elements
ZstCallPanic ==
  /\ pc = "zst_loop"
  /\ i < len
  /\ \E g \in ValsOf(a_size) :
       Fail("f_panic",
            << Ev("read", "A", i, SlotVal(mem, live_a, "A", i, g),
                  SlotValid(mem, live_a, "A", i)),
               Ev("call", "A", i, SlotVal(mem, live_a, "A", i, g), TRUE),
               Ev("panic", "A", i, SlotVal(mem, live_a, "A", i, g), TRUE) >>
            \o DropRange(mem, live_a \ {i}, "A", 0, owned.len, g)
            \o FreeLog(owned.cap, a_size))
  /\ panic_at' = i
  /\ UNCHANGED <<inputs, i, idx, v, y, mem, live_b, cap_out, out>>

\* mem::transmute(self)
ZstTransmute ==
  /\ pc = "zst_loop"
  /\ i >= len
  /\ out' = VecOf(owned.ptr, owned.len, owned.cap)
  /\ owned' = NoVec
  /\ pc' = "returned"
  /\ UNCHANGED <<inputs, err, i, idx, v, y, mem, alloc, live_a, live_b, cap_out,
                 panic_at, log>>

\* ------------------------------------ zero-sized destination: push path
\* one turn of `for e in self.into_iter() { v.push(f(e)); }`
PushOk ==
  /\ pc = "push_loop"
  /\ i < len
  /\ \E g \in ValsOf(a_size) :
       log' = log \o << Ev("read", "A", i, SlotVal(mem, live_a, "A", i, g),
                           SlotValid(mem, live_a, "A", i)),
                        Ev("call", "A", i, SlotVal(mem, live_a, "A", i, g), TRUE),
                        Ev("push", "B", i,
                           CallF(SlotVal(mem, live_a, "A", i, g)), TRUE) >>
  /\ live_a' = live_a \ {i}
  /\ live_b' = live_b \cup {i}
  /\ i' = NextIndex(i)
  /\ UNCHANGED <<inputs, pc, err, idx, owned, v, y, mem, alloc, cap_out, out,
                 panic_at>>

\* f panics in the push path: unwinding drops the iterator (the unread
\* source elements, then the block) and then the vector of results
PushPanic ==
  /\ pc = "push_loop"
  /\ i < len
  /\ \E g \in ValsOf(a_size) :
       log' = log
         \o << Ev("read", "A", i, SlotVal(mem, live_a, "A", i, g),
                  SlotValid(mem, live_a, "A", i)),
               Ev("call", "A", i, SlotVal(mem, live_a, "A", i, g), TRUE),
               Ev("panic", "A", i, SlotVal(mem, live_a, "A", i, g), TRUE) >>
         \o DropRange(mem, live_a \ {i}, "A", i + 1, owned.len, g)
         \o FreeLog(owned.cap, a_size)
         \o DropRange(mem, live_b, "B", 0, i, Unit)
  /\ live_a' = live_a \ (i..(owned.len - 1))
  /\ live_b' = live_b \ (0..(i - 1))
  /\ alloc' = FreeAlloc(owned.cap, a_size)
  /\ owned' = NoVec
  /\ panic_at' = i
  /\ err' = "f_panic"
  /\ pc' = "failed"
  /\ UNCHANGED <<inputs, i, idx, v, y, mem, cap_out, out>>

\* the iterator is exhausted and dropped (releasing the block); v is returned
PushDone ==
  /\ pc = "push_loop"
  /\ i >= len
  /\ log' = log \o FreeLog(owned.cap, a_size)
  /\ alloc' = FreeAlloc(owned.cap, a_size)
  /\ out' = VecOf(WithCapacity0Ptr, Cardinality(live_b), UsizeMax)
  /\ owned' = NoVec
  /\ pc' = "returned"
  /\ UNCHANGED <<inputs, err, i, idx, v, y, mem, live_a, live_b, cap_out,
                 panic_at>>

\* ------------------------------------------------- the caller, afterwards
\* the returned Vec<B> is dropped: its elements in index order, then its block
DropResult ==
  /\ pc = "returned"
  /\ \E g \in ValsOf(b_size) :
       log' = log \o DropRange(mem, live_b, "B", 0, out.len, g)
                  \o FreeLog(out.cap, b_size)
  /\ live_b' = live_b \ (0..(out.len - 1))
  /\ alloc' = FreeAlloc(out.cap, b_size)
  /\ pc' = "done"
  /\ UNCHANGED <<inputs, err, i, idx, owned, v, y, mem, live_a, cap_out, out,
                 panic_at>>

\* the allocation as the returned Vec<B> sees it, once B is the source type of
\* a further call: its elements become the source elements
Retype(m) ==
  [b \in DOMAIN m |->
     IF m[b].ty = "B" THEN [m[b] EXCEPT !.ty = "A"] ELSE Uninit]

\* the inverses of the conversion function among the functions tried
Inverses ==
  {g \in Fns(ValsOf(b_size), ValsOf(a_size)) :
     \A x \in ValsOf(a_size) : g[f[x]] = x}

\* the caller maps the returned vector back with an inverse g of f: a second
\* call of map_in_place, on Vec<B>, with A and B exchanged; the elements the
\* second call owns are the values of B still alive in the returned vector
MapBack ==
  /\ pc = "returned"
  /\ trip.round = 1
  /\ a_size = b_size
  /\ \E g \in Inverses : f' = g
  /\ a_size' = b_size /\ b_size' = a_size
  /\ a_align' = b_align /\ b_align' = a_align
  /\ len' = out.len
  /\ cap' = out.cap
  /\ base' = out.ptr
  /\ \E u \in ValsOf(b_size) :
       src' = [j \in 0..(out.len - 1) |-> SlotVal(mem, live_b, "B", j, u)]
  /\ trip' = [trip EXCEPT !.round = 2]
  /\ owned' = VecOf(out.ptr, out.len, out.cap)
  /\ mem' = Retype(mem)
  /\ live_a' = live_b \cap 0..(out.len - 1)
  /\ live_b' = {}
  /\ i' = 0
  /\ idx' = 0
  /\ cap_out' = 0
  /\ out' = NoVec
  /\ log' = << >>
  /\ pc' = "start"
  /\ UNCHANGED <<err, v, y, alloc, panic_at>>

Next ==
  \/ DispatchLess
  \/ DispatchEqualZst
  \/ DispatchEqual
  \/ DispatchGreaterZst
  \/ DispatchGreater
  \/ DispatchGreaterFail
  \/ LoopRead
  \/ LoopCallOk
  \/ LoopCallPanic
  \/ LoopWrite
  \/ LoopExit
  \/ DropperDrop
  \/ DropOwnedField
  \/ FromRawParts
  \/ ZstCallOk
  \/ ZstCallPanic
  \/ ZstTransmute
  \/ PushOk
  \/ PushPanic
  \/ PushDone
  \/ DropResult
  \/ MapBack

Spec == Init /\ [][Next]_vars

\* ------------------------------------------- borrowed view: &mut [A]
\* The transformer for a mutable slice (the capability contract implemented
\* for a view that owns no allocation): only equal strides are legal, the
\* same read / convert / write loop runs on the view's memory, no guard.

\* mutant of StridesMatch: a smaller destination stride accepted, as for the
\* owned buffer
StridesMatch_shrink(x, z) == x >= z

\* the stride check of the view: size(A) == size(B)
StridesMatch(x, z) == x = z

SliceInit ==
  /\ \E ta \in Types, tb \in Types :
       /\ a_size = ta[1] /\ a_align = ta[2]
       /\ b_size = tb[1] /\ b_align = tb[2]
  /\ len \in 0..MaxLen
  /\ cap = len
  /\ src \in [0..(len - 1) -> ValsOf(a_size)]
  /\ f \in Fns(ValsOf(a_size), ValsOf(b_size))
  /\ base = BasePtr(len, a_size, a_align)
  /\ trip = [round |-> 1, src |-> src, ptr |-> base, len |-> len]
  /\ pc = "slice_start"
  /\ err = "none"
  /\ i = 0
  /\ idx = 0
  /\ owned = NoVec
  /\ v = None
  /\ y = None
  /\ mem = InitMem(AllocBytes(len, a_size), a_size, len, src)
  /\ alloc = "borrowed"
  /\ live_a = 0..(len - 1)
  /\ live_b = {}
  /\ cap_out = 0
  /\ out = NoVec
  /\ panic_at = None
  /\ log = << >>

\* any stride mismatch is a precondition violation: fails at once
SliceReject ==
  /\ pc = "slice_start"
  /\ ~StridesMatch(a_size, b_size)
  /\ pc' = "failed"
  /\ err' = "precondition"
  /\ UNCHANGED <<inputs, i, idx, owned, v, y, mem, alloc, live_a, live_b,
                 cap_out, out, panic_at, log>>

SliceEnter ==
  /\ pc = "slice_start"
  /\ StridesMatch(a_size, b_size)
  /\ pc' = "slice_read"
  /\ UNCHANGED <<inputs, err, i, idx, owned, v, y, mem, alloc, live_a, live_b,
                 cap_out, out, panic_at, log>>

\* read (move out) the source element at index i
SliceRead ==
  /\ pc = "slice_read"
  /\ i < len
  /\ \E g \in ValsOf(a_size) : v' = SlotVal(mem, live_a, "A", i, g)
  /\ log' = Append(log, Ev("read", "A", i, v', SlotValid(mem, live_a, "A", i)))
  /\ live_a' = live_a \ {i}
  /\ pc' = "slice_call"
  /\ UNCHANGED <<inputs, err, i, idx, owned, y, mem, alloc, live_b, cap_out,
                 out, panic_at>>

\* invoke f; it returns
SliceCallOk ==
  /\ pc = "slice_call"
  /\ y' = CallF(v)
  /\ v' = None
  /\ log' = Append(log, Ev("call", "A", i, v, TRUE))
  /\ pc' = "slice_write"
  /\ UNCHANGED <<inputs, err, i, idx, owned, mem, alloc, live_a, live_b,
                 cap_out, out, panic_at>>

\* invoke f; it fails: the view is left partly converted, no cleanup
SliceCallPanic ==
  /\ pc = "slice_call"
  /\ v' = None
  /\ log' = log \o << Ev("call", "A", i, v, TRUE), Ev("panic", "A", i, v, TRUE) >>
  /\ panic_at' = i
  /\ err' = "f_panic"
  /\ pc' = "failed"
  /\ UNCHANGED <<inputs, i, idx, owned, y, mem, alloc, live_a, live_b,
                 cap_out, out>>

\* write the result at the same offset
SliceWrite ==
  /\ pc = "slice_write"
  /\ mem' = WriteSlot(mem, "B", i, y)
  /\ log' = Append(log, Ev("write", "B", i, y, TRUE))
  /\ live_b' = live_b \cup {i}
  /\ y' = None
  /\ i' = NextIndex(i)
  /\ pc' = "slice_read"
  /\ UNCHANGED <<inputs, err, idx, owned, v, alloc, live_a, cap_out, out,
                 panic_at>>

\* the view is reinterpreted at type B: same address, same length
SliceDone ==
  /\ pc = "slice_read"
  /\ i >= len
  /\ out' = VecOf(ptr_b, len, len)
  /\ pc' = "returned"
  /\ UNCHANGED <<inputs, err, i, idx, owned, v, y, mem, alloc, live_a, live_b,
                 cap_out, panic_at, log>>

SliceNext ==
  \/ SliceReject
  \/ SliceEnter
  \/ SliceRead
  \/ SliceCallOk
  \/ SliceCallPanic
  \/ SliceWrite
  \/ SliceDone

SliceSpec == SliceInit /\ [][SliceNext]_vars

\* ===================================================== the claims' checks
Calls == SelectSeq(log, LAMBDA e : e.op = "call")
Drops == SelectSeq(log, LAMBDA e : e.op = "drop")
CallsAndDrops == SelectSeq(log, LAMBDA e : e.op \in {"call", "drop"})
Accesses == SelectSeq(log, LAMBDA e : e.op \in {"read", "call", "write", "push"})

\* what a destructor log shows of each event
Proj(s) == [n \in 1..Len(s) |-> <<s[n].op, s[n].ty, s[n].idx>>]

\* the events op/ty on indices lo..hi-1, in increasing order
Run(op, ty, lo, hi) ==
  IF hi <= lo THEN << >> ELSE [n \in 1..(hi - lo) |-> <<op, ty, lo + n - 1>>]

\* position in the log of the event op on index j (0 when there is none)
Pos(op, j) ==
  IF \E p \in 1..Len(log) : log[p].op = op /\ log[p].idx = j
    THEN CHOOSE p \in 1..Len(log) : log[p].op = op /\ log[p].idx = j
    ELSE 0

Count(op, ty, j) ==
  Cardinality({p \in 1..Len(log) :
                 log[p].op = op /\ log[p].ty = ty /\ log[p].idx = j})

\* element j of the returned vector, read through the vector at type B
ResultElem(j) ==
  IF b_size = 0 THEN Unit
  ELSE IF BytesHold(mem, "B", j) THEN mem[Offset("B", j)].val
  ELSE None

\* the guarded in-place loop is the path taken
InPlace == a_size >= b_size /\ b_size > 0

\* the call ended in a panic of f
FPanicked == pc = "failed" /\ err = "f_panic"

\* C1: when map_in_place returns (size(A) >= size(B), f did not fail), the
\* returned buffer has the input's length and its element i is f(input
\* element i) for every i in 0..len; with size(A) >= size(B) the only
\* precondition failure is the inexact capacity division.
C1_MapsEveryElement ==
  /\ pc = "returned" =>
       /\ a_size >= b_size
       /\ out.some
       /\ out.len = len
       /\ \A j \in 0..(len - 1) : ResultElem(j) = f[src[j]]
  /\ (pc = "failed" /\ err = "precondition" /\ a_size >= b_size) =>
       (a_size > b_size /\ b_size > 0 /\ (cap * a_size) % b_size # 0)

C1_Witness ==
  /\ pc = "returned"
  /\ a_size > b_size /\ b_size > 0
  /\ len = 3
  /\ \E j \in 0..(len - 1) : f[src[j]] # src[j]
  /\ \E j, k \in 0..(len - 1) : ResultElem(j) # ResultElem(k)

\* C2: if f aborts at index k of the guarded loop, each of the k produced
\* destination values and each of the len-k-1 unread source values is
\* destroyed exactly once, slot k is not destroyed by the guard, and no
\* destructor runs on a slot that holds no valid value.
C2_NoLeakNoDoubleDrop ==
  (FPanicked /\ InPlace) =>
    /\ \A j \in 0..(panic_at - 1) : Count("drop", "B", j) = 1
    /\ \A j \in (panic_at + 1)..(len - 1) : Count("drop", "A", j) = 1
    /\ Count("drop", "A", panic_at) = 0
    /\ Count("drop", "B", panic_at) = 0
    /\ \A p \in 1..Len(log) : log[p].op = "drop" => log[p].valid

\* C3: when f fails on source element k, the guard destroys exactly the
\* produced destination elements 0..k-1 in increasing order and only then
\* the untouched source elements k+1..len-1 in increasing order.
C3_GuardDropOrder ==
  (FPanicked /\ InPlace) =>
    Proj(Drops) = Run("drop", "B", 0, panic_at)
                    \o Run("drop", "A", panic_at + 1, len)

\* C4: on every legal path f is invoked exactly once per source element, on
\* that element, in strictly increasing index order; in the in-place loop
\* the read of slot i precedes the call of f on it, which precedes the
\* write of destination slot i.
C4_CallOrder ==
  /\ Proj(Calls) = Run("call", "A", 0, Len(Calls))
  /\ \A n \in 1..Len(Calls) : Calls[n].val = src[n - 1]
  /\ pc \in {"returned", "done"} => Len(Calls) = len
  /\ \A p \in 1..Len(log) :
       /\ log[p].op = "call" =>
            (Pos("read", log[p].idx) > 0 /\ Pos("read", log[p].idx) < p)
       /\ log[p].op = "write" =>
            (Pos("call", log[p].idx) > 0 /\ Pos("call", log[p].idx) < p)
  /\ (pc \in {"returned", "done"} /\ InPlace) =>
       \A j \in 0..(len - 1) :
          /\ Count("read", "A", j) = 1
          /\ Count("write", "B", j) = 1
          /\ Pos("read", j) < Pos("call", j)
          /\ Pos("call", j) < Pos("write", j)

C4_Witness ==
  /\ pc = "returned"
  /\ InPlace
  /\ len = 3
  /\ Len(Calls) = 3
  /\ Pos("write", 1) < Pos("read", 2)

\* C5: for size(A) == size(B) (both zero included) or size(A) > size(B) > 0
\* the base address of the returned buffer is the input's base address.
C5_SameBaseAddress ==
  (pc = "returned" /\ (a_size = b_size \/ (a_size > b_size /\ b_size > 0))) =>
    out.ptr = base

C5_Witness ==
  /\ pc = "returned"
  /\ a_size > b_size /\ b_size > 0
  /\ len > 0
  /\ out.ptr = HeapBase

\* C6: for size(A) >= size(B) > 0 the returned capacity is
\* capacity_in * size(A) / size(B): unchanged for equal strides, the floor
\* of the quotient when the source stride is larger.
C6_Capacity ==
  (pc = "returned" /\ InPlace) =>
    /\ out.cap = (cap * a_size) \div b_size
    /\ a_size = b_size => out.cap = cap

C6_Witness ==
  /\ pc = "returned"
  /\ a_size > b_size /\ b_size > 1
  /\ cap > 0
  /\ out.cap # cap
  /\ out.cap * b_size = cap * a_size

\* C7: with size(A) < size(B) the call fails with a precondition error for
\* every length, before f is invoked and before any element is read or
\* written, and returns nothing.
C7_GrowRejected ==
  (a_size < b_size /\ pc # "start") =>
    /\ pc = "failed"
    /\ err = "precondition"
    /\ ~out.some
    /\ Accesses = << >>

C7_Witness ==
  /\ pc = "failed"
  /\ a_size = 0 /\ b_size > 0
  /\ len > 0
  /\ err = "precondition"

\* C8: with size(A) > size(B) > 0 and capacity * size(A) not divisible by
\* size(B) the call fails with a precondition error instead of truncating
\* the capacity, before any element is read, converted or written.
C8_InexactDivisionRejected ==
  (a_size > b_size /\ b_size > 0 /\ (cap * a_size) % b_size # 0
     /\ pc # "start") =>
    /\ pc = "failed"
    /\ err = "precondition"
    /\ ~out.some
    /\ Accesses = << >>

C8_Witness ==
  /\ pc = "failed"
  /\ err = "precondition"
  /\ a_size > b_size /\ b_size > 0
  /\ (cap * a_size) % b_size # 0
  /\ len > 0

\* C9: on normal completion of an equal-stride map the call itself runs no
\* destructor: every source element is consumed once by f, in index order,
\* no destination element is destroyed during the call, and each
\* destination element is destroyed exactly once, in index order, when the
\* returned buffer is dropped.
C9_NoDropsUntilResultDropped ==
  (a_size = b_size) =>
    /\ pc = "returned" =>
         /\ Drops = << >>
         /\ Proj(Calls) = Run("call", "A", 0, len)
    /\ pc = "done" =>
         /\ Proj(Drops) = Run("drop", "B", 0, len)
         /\ \A n \in 1..Len(Drops) : Drops[n].valid

\* the same statement restricted to equal non-zero strides, where the guarded
\* loop runs
C9_HoldsForNonZeroStride == a_size > 0 => C9_NoDropsUntilResultDropped

\* C10: when f panics at index k of an equal-stride buffer, the destructor
\* log is: source elements 0..k consumed in order, then destination
\* destructors for slots 0..k (k included), then source destructors for
\* slots k+1..len-1.
C10_PanicDropLog ==
  (FPanicked /\ a_size = b_size /\ a_size > 0) =>
    Proj(CallsAndDrops) = Run("call", "A", 0, panic_at + 1)
                            \o Run("drop", "B", 0, panic_at + 1)
                            \o Run("drop", "A", panic_at + 1, len)

Forgets == SelectSeq(log, LAMBDA e : e.op = "forget")

\* C11: when f fails on an element of an owned buffer, the failure reaches
\* the caller only after the guard's cleanup has completed: the cleanup
\* branch of Dropper::drop has run (the guard has not taken its "no cleanup
\* required" branch), every destructor and the release of the block come
\* after the failure of f in the log, and at the failed state no element is
\* left alive and the block is no longer held; no buffer, original or
\* partly converted, is ever returned.
C11_PropagatedAfterCleanup ==
  /\ err = "f_panic" =>
       /\ ~out.some
       /\ pc \in {"guard_drop", "guard_glue", "failed"}
  /\ (FPanicked /\ InPlace) =>
       /\ ~owned.some
       /\ Forgets = << >>
       /\ \E p \in 1..Len(log) :
            /\ log[p].op = "panic"
            /\ \A q \in 1..Len(log) :
                 log[q].op \in {"drop", "free"} => p < q
       /\ live_a = {} /\ live_b = {}
       /\ alloc # "live"

\* the part of C11 the code keeps: once f has failed no buffer is ever
\* returned and the failed state comes after Dropper::drop has run one of
\* its two branches; for an abort before the last index the cleanup branch
\* runs and the statement of C11 holds in full
C11_PropagatedAfterGuard ==
  /\ err = "f_panic" =>
       /\ ~out.some
       /\ pc \in {"guard_drop", "guard_glue", "failed"}
  /\ FPanicked =>
       /\ ~owned.some
       /\ trip.round = 1 => panic_at \in 0..(len - 1)
       /\ InPlace =>
            \E p, q \in 1..Len(log) :
               /\ p < q
               /\ log[p].op = "panic"
               /\ log[q].op \in {"drop", "forget"}
       /\ (InPlace /\ Forgets = << >>) =>
            /\ live_a = {} /\ live_b = {}
            /\ alloc # "live"
            /\ \A q \in 1..Len(log) :
                 log[q].op \in {"drop", "free"} =>
                   \E p \in 1..(q - 1) : log[p].op = "panic"

Pushes == SelectSeq(log, LAMBDA e : e.op = "push")

C12_Appended ==
  /\ out.len = len
  /\ AllocBytes(out.cap, b_size) = 0
  /\ Proj(Pushes) = Run("push", "B", 0, len)
  /\ \A n \in 1..Len(Pushes) : Pushes[n].val = f[src[n - 1]]
  /\ \A j \in 0..(len - 1) : ResultElem(j) = f[src[j]]

\* C12 as stated: for size(B) == 0 < size(A) a successful call returns a
\* buffer of the same length holding the mapped values, appended to a fresh
\* buffer without a heap block, whose base address differs from the input's.
C12_AddressDiffers ==
  (pc = "returned" /\ b_size = 0 /\ a_size > 0) =>
    /\ C12_Appended
    /\ out.ptr # base

\* C12 amended: the same, with the base address differing from the input's
\* whenever the input owns a heap block (capacity > 0); with capacity 0
\* both pointers are dangling and equal exactly when A and B have the same
\* alignment.
C12_AddressDiffersWhenAllocated ==
  (pc = "returned" /\ b_size = 0 /\ a_size > 0) =>
    /\ C12_Appended
    /\ cap > 0 => out.ptr # base
    /\ cap = 0 => (out.ptr = base <=> a_align = b_align)

C12_Witness ==
  /\ pc = "returned"
  /\ b_size = 0 /\ a_size > 0
  /\ len = 3
  /\ cap > 0
  /\ out.ptr # base

\* C13: round trip: for equal sizes, mapping with f and then mapping the
\* result with an inverse g of f returns the original values, with the same
\* length and the same base address.
C13_RoundTrip ==
  (trip.round = 2 /\ pc = "returned") =>
    /\ out.len = trip.len
    /\ out.ptr = trip.ptr
    /\ \A j \in 0..(trip.len - 1) : ResultElem(j) = trip.src[j]

C13_Witness ==
  /\ trip.round = 2
  /\ pc = "returned"
  /\ a_size > 0
  /\ trip.len = 3
  /\ \E j \in 0..(trip.len - 1) : src[j] # trip.src[j]
  /\ \E j, k \in 0..(trip.len - 1) : trip.src[j] # trip.src[k]


\* C14: for a borrowed view any stride mismatch fails with a precondition
\* error before any element is touched; on stride match the view's address
\* is unchanged and element i of the result is f(input element i), the
\* calls of f being made in index order.
C14_SliceMap ==
  /\ (a_size # b_size /\ pc # "slice_start") =>
       /\ pc = "failed"
       /\ err = "precondition"
       /\ ~out.some
       /\ Accesses = << >>
       /\ mem = InitMem(AllocBytes(len, a_size), a_size, len, src)
       /\ live_a = 0..(len - 1)
  /\ pc = "returned" =>
       /\ a_size = b_size
       /\ out.ptr = base
       /\ out.len = len
       /\ Proj(Calls) = Run("call", "A", 0, len)
       /\ \A j \in 0..(len - 1) : ResultElem(j) = f[src[j]]

C14_Witness ==
  /\ pc = "returned"
  /\ pc # "slice_start"
  /\ alloc = "borrowed"
  /\ a_size = b_size /\ a_size > 0
  /\ len = 3
  /\ \E j \in 0..(len - 1) : ResultElem(j) # src[j]

\* the guard exists: the loop of fn map_in_place is running
GuardActive == pc \in {"loop_read", "loop_call", "loop_write"}

\* C15: while the guard is active, and in particular where f can abort, with
\* count the guard's progress counter: 0 <= count <= len, every slot in
\* [0, count) holds a valid B and every slot in [count, len) a valid,
\* untouched A, so every index holds valid data of exactly one type.
C15_GuardInvariant ==
  GuardActive =>
    /\ 0 <= idx /\ idx <= len
    /\ \A j \in 0..(idx - 1) : SlotValid(mem, live_b, "B", j)
    /\ \A j \in idx..(len - 1) : SlotValid(mem, live_a, "A", j)
    /\ \A j \in 0..(len - 1) : (j \in live_a) # (j \in live_b)

\* what does hold of the code: the invariant with the loop index i in place
\* of the guard's counter, the slot being converted excepted
C15_HoldsForLoopIndex ==
  GuardActive =>
    /\ idx = (IF pc = "loop_read" THEN i ELSE i + 1)
    /\ \A j \in 0..(i - 1) : SlotValid(mem, live_b, "B", j)
    /\ \A j \in (IF pc = "loop_read" THEN i ELSE i + 1)..(len - 1) :
          SlotValid(mem, live_a, "A", j)

Frees == SelectSeq(log, LAMBDA e : e.op = "free")

\* C16: for every abort index k in 0..len, the last one included, the
\* guard's cleanup runs: the produced destination elements and the untouched
\* source elements are destroyed and the allocation is released; the cleanup
\* is skipped only when the loop ran to completion.
C16_CleanupOnEveryAbort ==
  /\ (FPanicked /\ InPlace) =>
       /\ Forgets = << >>
       /\ \A j \in 0..(panic_at - 1) : Count("drop", "B", j) = 1
       /\ \A j \in (panic_at + 1)..(len - 1) : Count("drop", "A", j) = 1
       /\ alloc # "live"
  /\ Forgets # << >> => (err = "none" /\ Len(Calls) = len)

\* C17: the allocation has one owner and is released exactly once in every
\* outcome of the guarded map: after normal completion the returned buffer
\* alone owns it and nothing has freed it; after an abort of f at any index
\* the guard has freed it exactly once, after the element cleanup, the
\* original buffer's length being zero so that no element is destroyed by
\* the release.
C17_ReleasedExactlyOnce ==
  (InPlace /\ cap > 0) =>
    /\ alloc # "double_freed"
    /\ pc = "returned" =>
         /\ alloc = "live" /\ Frees = << >>
         /\ out.some /\ ~owned.some
    /\ FPanicked =>
         /\ alloc = "freed"
         /\ Len(Frees) = 1
         /\ log[Len(log)].op = "free"
    /\ pc = "guard_glue" => owned.len = 0
    /\ pc = "done" => (alloc = "freed" /\ Len(Frees) = 1)

\* C18: whenever the in-place loop writes destination element i, size(A) >=
\* size(B) > 0, the bytes [i*size(B), (i+1)*size(B)) written lie inside the
\* allocation of capacity_in * size(A) bytes and overlap no source slot
\* j > i, none of which has been read yet; every unread source slot is
\* intact.
C18_WriteStaysClear ==
  /\ pc = "loop_write" =>
       /\ a_size >= b_size /\ b_size > 0
       /\ SlotBytes("B", i) = (i * b_size)..((i + 1) * b_size - 1)
       /\ \A b \in SlotBytes("B", i) : b >= 0 /\ b < cap * a_size
       /\ SlotBytes("B", i) \subseteq DOMAIN mem
       /\ \A j \in (i + 1)..(len - 1) :
            /\ SlotBytes("B", i) \cap (j * a_size)..((j + 1) * a_size - 1) = {}
            /\ j \in live_a
  /\ GuardActive => \A j \in live_a : BytesHold(mem, "A", j)

C18_Witness ==
  /\ pc = "loop_write"
  /\ a_size > b_size /\ b_size > 0
  /\ i = 1
  /\ len = 3
  /\ \E b \in SlotBytes("B", i) : mem[b].ty = "A" /\ mem[b].idx = 0

\* C19: the fast path for two zero-sized types needs no guard: f is invoked
\* exactly len times, and over the call and the later drop of the returned
\* buffer every source placeholder and every produced destination value is
\* destroyed exactly once; if f aborts at index k no placeholder already
\* consumed is destroyed again.
C19_ZstFastPath ==
  (a_size = 0 /\ b_size = 0) =>
    /\ pc \in {"returned", "done"} => Len(Calls) = len
    /\ pc = "done" =>
         \A j \in 0..(len - 1) :
            /\ Count("call", "A", j) + Count("drop", "A", j) = 1
            /\ Count("drop", "B", j) = 1
    /\ FPanicked =>
         \A j \in 0..panic_at : Count("drop", "A", j) = 0

\* C20: a buffer returned by an in-place map with size(A) >= size(B) > 0 is
\* well formed: len <= capacity, and capacity_out * size(B) equals
\* capacity_in * size(A), the byte size of the allocation, that product
\* having been formed without wrap-around.
C20_ByteSizeBookkeeping ==
  (pc = "returned" /\ InPlace) =>
    /\ out.len <= out.cap
    /\ out.cap * b_size = cap * a_size
    /\ out.cap * b_size = Cardinality(DOMAIN mem)
    /\ cap * a_size <= UsizeMax
    /\ CheckedMul(cap, a_size) = cap * a_size

C20_Witness ==
  /\ pc = "returned"
  /\ a_size > b_size /\ b_size > 1
  /\ len = 2
  /\ out.cap > cap
  /\ out.len < out.cap

====
